---- MODULE Spec2Model ----
(***************************************************************************)
(* The Idea Board API of backend/server.py: three handlers (get_ideas,     *)
(* create_idea, upvote_idea) over the db.ideas collection.  Every handler  *)
(* is split at its await of the storage round trip, so that the requests   *)
(* of several clients interleave as they do on the event loop.             *)
(***************************************************************************)
EXTENDS Integers, Sequences, FiniteSets, TLC

VARIABLES
    ideas,        \* db.ideas: the stored documents, in insertion order
    generated,    \* the ids uuid4 has handed out so far
    req,          \* per client: the request in flight and where its handler is
    opsLeft,      \* requests that may still be started
    createResps,  \* the bodies of the 200 responses of create_idea returned so far
    upvoteResps,  \* the bodies of the 200 responses of upvote_idea, in return order
    writes,       \* the number of writes db.ideas has taken so far
    statusChecks, \* db.status_checks: the stored documents, in insertion order
    up            \* whether the store is reachable

vars == <<ideas, generated, req, opsLeft, createResps, upvoteResps, writes,
          statusChecks, up>>

----------------------------------------------------------------------------
(* Bounds of the model. *)

\* requests started in a behaviour of Spec
MaxOps == 4

\* requests started in a behaviour of SpecLarge
LargeOps == 2

\* size of the id space uuid4 draws from
MaxCreates == 2

\* requests started in a behaviour of SpecFaults
FaultOps == 2

\* requests started in a behaviour of SpecRouter
RouterOps == 3

(* Program constants. *)

\* IdeaCreate.text: Field(..., max_length=280, min_length=1)
max_length == 280
min_length == 1

\* .to_list(1000)
to_list_length == 1000

Clients == {"c1", "c2"}

Min(a, b) == IF a < b THEN a ELSE b

----------------------------------------------------------------------------
(* Texts.  A text is a run of n copies of one character, as the "a" * 281  *)
(* of the tests; len is its number of characters.                          *)

TextLens == {0, 1, 280, 281}

Texts == {[ch |-> "a", n |-> k] : k \in TextLens}

len(t) == t.n

----------------------------------------------------------------------------
(* datetime.  A clock reading keeps the minute, second and microsecond     *)
(* fields; the date and hour fields are the same for every reading.        *)

\* datetime.now(timezone.utc): the wall clock, which is not monotonic
now == {[minute |-> 20, second |-> 9,  microsecond |-> 0],
        [minute |-> 20, second |-> 9,  microsecond |-> 500000],
        [minute |-> 20, second |-> 10, microsecond |-> 5]}

Digits == <<"0", "1", "2", "3", "4", "5", "6", "7", "8", "9">>

chr(d) == Digits[d + 1]

digit(c) == CHOOSE d \in 0..9 : Digits[d + 1] = c

\* "%02d"
TwoDigits(n) == <<chr(n \div 10), chr(n % 10)>>

\* "%06d"
SixDigits(n) ==
    <<chr(n \div 100000), chr((n \div 10000) % 10), chr((n \div 1000) % 10),
      chr((n \div 100) % 10), chr((n \div 10) % 10), chr(n % 10)>>

\* datetime.isoformat(): "MM:SS+00:00", or "MM:SS.ffffff+00:00" when the
\* microsecond field is not 0
isoformat(d) ==
    TwoDigits(d.minute) \o <<":">> \o TwoDigits(d.second)
    \o (IF d.microsecond = 0 THEN <<>> ELSE <<".">> \o SixDigits(d.microsecond))
    \o <<"+", "0", "0", ":", "0", "0">>

\* datetime.fromisoformat()
fromisoformat(s) ==
    [minute      |-> 10 * digit(s[1]) + digit(s[2]),
     second      |-> 10 * digit(s[4]) + digit(s[5]),
     microsecond |-> IF s[6] = "."
                     THEN 100000 * digit(s[7]) + 10000 * digit(s[8])
                          + 1000 * digit(s[9]) + 100 * digit(s[10])
                          + 10 * digit(s[11]) + digit(s[12])
                     ELSE 0]

\* datetime.__lt__ on two readings of the same day and hour
DatetimeLess(a, b) ==
    \/ a.minute < b.minute
    \/ a.minute = b.minute /\ a.second < b.second
    \/ a.minute = b.minute /\ a.second = b.second /\ a.microsecond < b.microsecond

----------------------------------------------------------------------------
(* Documents and models. *)

\* as with Field(default=str(uuid.uuid4())): one id, drawn once
uuid4_once(used) == {1}

\* Field(default_factory=lambda: str(uuid.uuid4())): a random 122-bit id per
\* idea, taken never to repeat
uuid4(used) == (1..MaxCreates) \ used

\* as with upvotes: int = Field(default=1)
Idea_upvotes_one(text, id, created_at) ==
    [id |-> id, text |-> text, upvotes |-> 1, created_at |-> created_at]

\* Idea(text=...): id and created_at from their default factories, upvotes 0
Idea(text, id, created_at) ==
    [id |-> id, text |-> text, upvotes |-> 0, created_at |-> created_at]

\* as with Idea's Field(..., max_length=280), which has no min_length
IdeaCreate_no_min(text) == len(text) <= max_length

\* IdeaCreate's validation of text
IdeaCreate_valid(text) == min_length <= len(text) /\ len(text) <= max_length

prepare_for_mongo(data) == [data EXCEPT !.created_at = isoformat(@)]

parse_from_mongo(item) == [item EXCEPT !.created_at = fromisoformat(@)]

\* IdeaResponse(**d): the four fields of the response model
IdeaResponse(d) ==
    [id |-> d.id, text |-> d.text, upvotes |-> d.upvotes, created_at |-> d.created_at]

----------------------------------------------------------------------------
(* The store: the operations of db.ideas the handlers call. *)

\* the code point of a character of an isoformat string
ord(c) ==
    CASE c = "+" -> 43
      [] c = "." -> 46
      [] c = ":" -> 58
      [] OTHER   -> 48 + digit(c)

\* the store's order on strings: by code point at the first difference, a
\* proper prefix first
StrLess(a, b) ==
    LET n    == Min(Len(a), Len(b))
        diff == {i \in 1..n : a[i] # b[i]}
    IN  IF diff = {}
        THEN Len(a) < Len(b)
        ELSE LET i == CHOOSE j \in diff : \A k \in diff : j <= k
             IN  ord(a[i]) < ord(b[i])

\* as with .sort([("upvotes", -1), ("created_at", 1)])
SortBefore_created_asc(a, b) ==
    \/ a.upvotes > b.upvotes
    \/ a.upvotes = b.upvotes /\ StrLess(a.created_at, b.created_at)

\* .sort([("upvotes", -1), ("created_at", -1)]): a sorts before b
SortBefore(a, b) ==
    \/ a.upvotes > b.upvotes
    \/ a.upvotes = b.upvotes /\ StrLess(b.created_at, a.created_at)

\* documents ordered by the sort keys
sort(docs) == SortSeq(docs, SortBefore)

\* the values of the sort keys of a document
SortKey(doc) == <<doc.upvotes, doc.created_at>>

\* the positions of a sorted sequence whose document has the sort keys of a
\* neighbour
Tied(s) ==
    {i \in 1..Len(s) :
        \/ i > 1 /\ SortKey(s[i - 1]) = SortKey(s[i])
        \/ i < Len(s) /\ SortKey(s[i + 1]) = SortKey(s[i])}

\* the rearrangements of the tied positions T among documents of equal keys
TiePerms(s, T) ==
    {f \in [T -> T] :
        /\ \A i, j \in T : f[i] = f[j] => i = j
        /\ \A i \in T : SortKey(s[f[i]]) = SortKey(s[i])}

\* the sort names no unique key, so the store returns documents of equal
\* keys in any order, and not the same order every time
reorder(s) ==
    UNION {{[i \in 1..Len(s) |-> IF i \in T THEN s[f[i]] ELSE s[i]] :
                f \in TiePerms(s, T)} : T \in {Tied(s)}}

\* cursor.to_list(length): at most length documents
to_list(docs, length) == SubSeq(docs, 1, Min(Len(docs), length))

\* find().sort(...).to_list(length): the results the store may give
find_sorted(coll, length) ==
    UNION {{to_list(o, length) : o \in reorder(s)} : s \in {sort(coll)}}

insert_one(coll, doc) == Append(coll, doc)

\* as with the filter {}: every document matches
match_any(coll, idea_id) == 1..Len(coll)

\* the positions of the documents matching {"id": idea_id}
match(coll, idea_id) == {i \in 1..Len(coll) : coll[i].id = idea_id}

first(S) == CHOOSE i \in S : \A k \in S : i <= k

\* as with {"$set": {"upvotes": 1}}
inc_set_one(doc) == [doc EXCEPT !.upvotes = 1]

\* as with {"$inc": {"upvotes": -1}}
inc_minus_one(doc) == [doc EXCEPT !.upvotes = @ - 1]

\* {"$inc": {"upvotes": 1}}
inc(doc) == [doc EXCEPT !.upvotes = @ + 1]

\* as with find_one_and_delete: the first match is removed
find_one_and_delete(coll, idea_id) ==
    IF match(coll, idea_id) = {}
    THEN coll
    ELSE SubSeq(coll, 1, first(match(coll, idea_id)) - 1)
         \o SubSeq(coll, first(match(coll, idea_id)) + 1, Len(coll))

\* as with upsert=True: without a match a document is inserted
find_one_and_update_upsert(coll, idea_id) ==
    IF match(coll, idea_id) = {}
    THEN Append(coll, [id |-> idea_id, upvotes |-> 1])
    ELSE [coll EXCEPT ![first(match(coll, idea_id))] = inc(@)]

\* find_one_and_update: the collection after the update of the first match
find_one_and_update(coll, idea_id) ==
    IF match(coll, idea_id) = {}
    THEN coll
    ELSE [coll EXCEPT ![first(match(coll, idea_id))] = inc(@)]

\* as with return_document=False: the document before the update
returned_before(coll, idea_id) ==
    IF match(coll, idea_id) = {}
    THEN <<>>
    ELSE <<coll[first(match(coll, idea_id))]>>

\* find_one_and_update with return_document=True: the document after the
\* update, or nothing (None) without a match
returned(coll, idea_id) ==
    IF match(coll, idea_id) = {}
    THEN <<>>
    ELSE <<inc(coll[first(match(coll, idea_id))])>>

\* as without the test of result
upvote_status_always_ok(result) == 200

\* if not result: raise HTTPException(status_code=404)
upvote_status(result) == IF result = <<>> THEN 404 ELSE 200

----------------------------------------------------------------------------
(* Requests. *)

Idle == [op |-> "none", pc |-> "idle", arg |-> <<>>, obj |-> <<>>,
         status |-> 0, body |-> <<>>, calls |-> 0, at |-> 0]

\* the path parameters clients send to upvote_idea: 0 is never an idea's id
UpvoteIds == 0..(MaxCreates + 1)

\* the client_name of the bodies clients send to create_status_check
ClientNames == {"web"}

\* as with an except clause that answers with an empty success
unreachable_swallowed(r) ==
    [r EXCEPT !.pc = "return", !.status = 200, !.body = <<>>, !.calls = @ + 1]

\* the store is unreachable: the awaited operation raises, no handler catches
\* it, and the framework answers 500
unreachable(r) ==
    [r EXCEPT !.pc = "return", !.status = 500, !.body = <<>>, !.calls = @ + 1]

\* as with a 404 for an empty board
get_ideas_status_404(docs) == IF docs = <<>> THEN 404 ELSE 200

\* get_ideas returns the list, whatever its length
get_ideas_status(docs) == 200

\* documents stored by earlier runs of the service: each was created with a
\* one-character text, and the older an idea the more upvotes it has gathered
existing(i) ==
    prepare_for_mongo(
        [id |-> MaxCreates + i, text |-> [ch |-> "a", n |-> 1],
         upvotes |-> to_list_length + 1 - i,
         created_at |-> [minute |-> i \div 60, second |-> i % 60, microsecond |-> 0]])

Init ==
    /\ ideas = <<>>
    /\ generated = {}
    /\ req = [c \in Clients |-> Idle]
    /\ opsLeft = MaxOps
    /\ createResps = {}
    /\ upvoteResps = <<>>
    /\ writes = 0
    /\ statusChecks = <<>>
    /\ up = TRUE

\* the service started over a collection that already holds to_list_length ideas
InitLarge ==
    /\ ideas = [i \in 1..to_list_length |-> existing(i)]
    /\ generated = {}
    /\ req = [c \in Clients |-> Idle]
    /\ opsLeft = LargeOps
    /\ createResps = {}
    /\ upvoteResps = <<>>
    /\ writes = 0
    /\ statusChecks = <<>>
    /\ up = TRUE

\* the service started over an empty store that may become unreachable
InitFaults ==
    /\ ideas = <<>>
    /\ generated = {}
    /\ req = [c \in Clients |-> Idle]
    /\ opsLeft = FaultOps
    /\ createResps = {}
    /\ upvoteResps = <<>>
    /\ writes = 0
    /\ statusChecks = <<>>
    /\ up = TRUE

\* the service started over an empty store, every route of the router in use
InitRouter ==
    /\ ideas = <<>>
    /\ generated = {}
    /\ req = [c \in Clients |-> Idle]
    /\ opsLeft = RouterOps
    /\ createResps = {}
    /\ upvoteResps = <<>>
    /\ writes = 0
    /\ statusChecks = <<>>
    /\ up = TRUE

\* POST /ideas with a text IdeaCreate rejects: 422, the handler does not run
create_idea_invalid(c, text) ==
    /\ req[c].pc = "idle"
    /\ opsLeft > 0
    /\ ~IdeaCreate_valid(text)
    /\ req' = [req EXCEPT ![c] = [Idle EXCEPT !.op = "create_idea", !.pc = "return",
                                              !.arg = <<text>>, !.status = 422]]
    /\ opsLeft' = opsLeft - 1
    /\ UNCHANGED <<ideas, generated, createResps, upvoteResps, writes, statusChecks, up>>

\* create_idea up to its await: idea_obj = Idea(**idea_input.dict())
create_idea_begin(c, text) ==
    /\ req[c].pc = "idle"
    /\ opsLeft > 0
    /\ IdeaCreate_valid(text)
    /\ \E id \in uuid4(generated), created_at \in now :
          /\ req' = [req EXCEPT ![c] = [Idle EXCEPT !.op = "create_idea", !.pc = "insert",
                                                    !.arg = <<text>>,
                                                    !.obj = <<Idea(text, id, created_at)>>]]
          /\ generated' = generated \cup {id}
    /\ opsLeft' = opsLeft - 1
    /\ UNCHANGED <<ideas, createResps, upvoteResps, writes, statusChecks, up>>

\* await db.ideas.insert_one(idea_data), then the response is built
create_idea_insert(c) ==
    /\ req[c].op = "create_idea"
    /\ req[c].pc = "insert"
    /\ ideas' = IF up THEN insert_one(ideas, prepare_for_mongo(req[c].obj[1])) ELSE ideas
    /\ writes' = IF up THEN writes + 1 ELSE writes
    /\ req' = [req EXCEPT ![c] =
                 IF up
                 THEN [@ EXCEPT !.pc = "return", !.status = 200, !.calls = @ + 1,
                                !.body = <<IdeaResponse(req[c].obj[1])>>]
                 ELSE unreachable(@)]
    /\ UNCHANGED <<generated, opsLeft, createResps, upvoteResps, statusChecks, up>>

\* the response of create_idea reaches the client
create_idea_return(c) ==
    /\ req[c].op = "create_idea"
    /\ req[c].pc = "return"
    /\ createResps' = IF req[c].status = 200
                      THEN createResps \cup {req[c].body[1]}
                      ELSE createResps
    /\ req' = [req EXCEPT ![c] = Idle]
    /\ UNCHANGED <<ideas, generated, opsLeft, upvoteResps, writes, statusChecks, up>>

\* upvote_idea: the find_one_and_update round trip and the 404 test
upvote_idea_update(c, idea_id) ==
    /\ req[c].pc = "idle"
    /\ opsLeft > 0
    /\ LET result == returned(ideas, idea_id)
           status == upvote_status(result)
           r      == [Idle EXCEPT !.op = "upvote_idea", !.arg = <<idea_id>>]
       IN  req' = [req EXCEPT ![c] =
                     IF up
                     THEN [r EXCEPT !.pc = "return", !.status = status, !.calls = @ + 1,
                                    !.body = IF result = <<>>
                                             THEN <<>>
                                             ELSE <<IdeaResponse(parse_from_mongo(result[1]))>>]
                     ELSE unreachable(r)]
    /\ ideas' = IF up THEN find_one_and_update(ideas, idea_id) ELSE ideas
    /\ writes' = IF ideas' # ideas THEN writes + 1 ELSE writes
    /\ opsLeft' = opsLeft - 1
    /\ UNCHANGED <<generated, createResps, upvoteResps, statusChecks, up>>

\* the response of upvote_idea reaches the client
upvote_idea_return(c) ==
    /\ req[c].op = "upvote_idea"
    /\ req[c].pc = "return"
    /\ upvoteResps' = IF req[c].status = 200
                      THEN upvoteResps \o req[c].body
                      ELSE upvoteResps
    /\ req' = [req EXCEPT ![c] = Idle]
    /\ UNCHANGED <<ideas, generated, opsLeft, createResps, writes, statusChecks, up>>

\* get_ideas: find().sort(...).to_list(1000), each document parsed
get_ideas_find(c) ==
    /\ req[c].pc = "idle"
    /\ opsLeft > 0
    /\ LET r == [Idle EXCEPT !.op = "get_ideas", !.at = writes]
       IN  IF up
           THEN \E docs \in find_sorted(ideas, to_list_length) :
                   req' = [req EXCEPT ![c] =
                             [r EXCEPT !.pc = "return", !.calls = @ + 1,
                                       !.status = get_ideas_status(docs),
                                       !.body = [i \in 1..Len(docs) |->
                                                   IdeaResponse(parse_from_mongo(docs[i]))]]]
           ELSE req' = [req EXCEPT ![c] = unreachable(r)]
    /\ opsLeft' = opsLeft - 1
    /\ UNCHANGED <<ideas, generated, createResps, upvoteResps, writes, statusChecks, up>>

\* the response of get_ideas reaches the client
get_ideas_return(c) ==
    /\ req[c].op = "get_ideas"
    /\ req[c].pc = "return"
    /\ req' = [req EXCEPT ![c] = Idle]
    /\ UNCHANGED <<ideas, generated, opsLeft, createResps, upvoteResps, writes,
                   statusChecks, up>>

Next ==
    \/ \E c \in Clients, text \in Texts : create_idea_invalid(c, text)
    \/ \E c \in Clients, text \in Texts : create_idea_begin(c, text)
    \/ \E c \in Clients : create_idea_insert(c)
    \/ \E c \in Clients : create_idea_return(c)
    \/ \E c \in Clients, idea_id \in UpvoteIds : upvote_idea_update(c, idea_id)
    \/ \E c \in Clients : upvote_idea_return(c)
    \/ \E c \in Clients : get_ideas_find(c)
    \/ \E c \in Clients : get_ideas_return(c)

\* the store reachable throughout, every request run to its response
Spec == Init /\ [][Next]_vars

SpecLarge == InitLarge /\ [][Next]_vars

----------------------------------------------------------------------------
(* The store becoming unreachable, and clients abandoning requests. *)

\* the store becomes unreachable
store_fails ==
    /\ up
    /\ up' = FALSE
    /\ UNCHANGED <<ideas, generated, req, opsLeft, createResps, upvoteResps, writes,
                   statusChecks>>

\* the store becomes reachable again
store_recovers ==
    /\ ~up
    /\ up' = TRUE
    /\ UNCHANGED <<ideas, generated, req, opsLeft, createResps, upvoteResps, writes,
                   statusChecks>>

\* the client goes away while create_idea awaits insert_one: the handler is
\* cancelled, and the insert already handed to the driver takes effect or not
create_idea_abandoned(c) ==
    /\ req[c].op = "create_idea"
    /\ req[c].pc = "insert"
    /\ \E applied \in BOOLEAN :
          /\ ideas' = IF applied /\ up
                      THEN insert_one(ideas, prepare_for_mongo(req[c].obj[1]))
                      ELSE ideas
          /\ writes' = IF applied /\ up THEN writes + 1 ELSE writes
    /\ req' = [req EXCEPT ![c] = Idle]
    /\ UNCHANGED <<generated, opsLeft, createResps, upvoteResps, statusChecks, up>>

\* the client goes away while upvote_idea awaits find_one_and_update: the
\* handler is cancelled, and the update already handed to the driver takes
\* effect or not
upvote_idea_abandoned(c, idea_id) ==
    /\ req[c].pc = "idle"
    /\ opsLeft > 0
    /\ \E applied \in BOOLEAN :
          ideas' = IF applied /\ up THEN find_one_and_update(ideas, idea_id) ELSE ideas
    /\ writes' = IF ideas' # ideas THEN writes + 1 ELSE writes
    /\ opsLeft' = opsLeft - 1
    /\ UNCHANGED <<generated, req, createResps, upvoteResps, statusChecks, up>>

\* the client goes away after the awaited operation has returned: the response
\* is lost, and no handler code runs for it
response_abandoned(c) ==
    /\ req[c].pc = "return"
    /\ req' = [req EXCEPT ![c] = Idle]
    /\ UNCHANGED <<ideas, generated, opsLeft, createResps, upvoteResps, writes,
                   statusChecks, up>>

NextFaults ==
    \/ Next
    \/ store_fails
    \/ store_recovers
    \/ \E c \in Clients : create_idea_abandoned(c)
    \/ \E c \in Clients, idea_id \in UpvoteIds : upvote_idea_abandoned(c, idea_id)
    \/ \E c \in Clients : response_abandoned(c)

SpecFaults == InitFaults /\ [][NextFaults]_vars

----------------------------------------------------------------------------
(* The other routes of api_router: root and the status checks. *)

\* StatusCheck(**status_dict): id and timestamp from their default factories
StatusCheck(client_name, id, timestamp) ==
    [id |-> id, client_name |-> client_name, timestamp |-> timestamp]

\* the store keeps a datetime to the millisecond
bson_datetime(dt) == [dt EXCEPT !.microsecond = (@ \div 1000) * 1000]

\* status_obj.dict() as the store keeps it
status_document(status_obj) ==
    [status_obj EXCEPT !.timestamp = bson_datetime(@)]

\* as with the status check written to db.ideas
db_ideas_insert_one(ideas_coll, status_coll, doc) ==
    <<insert_one(ideas_coll, doc), status_coll>>

\* db.status_checks.insert_one(doc): the two collections after it
db_status_checks_insert_one(ideas_coll, status_coll, doc) ==
    <<ideas_coll, insert_one(status_coll, doc)>>

\* GET /: a static message
root(c) ==
    /\ req[c].pc = "idle"
    /\ opsLeft > 0
    /\ req' = [req EXCEPT ![c] =
                 [Idle EXCEPT !.op = "root", !.pc = "return", !.status = 200,
                              !.body = <<[message |-> "Idea Board API is running!"]>>]]
    /\ opsLeft' = opsLeft - 1
    /\ UNCHANGED <<ideas, generated, createResps, upvoteResps, writes, statusChecks, up>>

\* create_status_check up to its await: status_obj = StatusCheck(**status_dict)
create_status_check_begin(c, client_name) ==
    /\ req[c].pc = "idle"
    /\ opsLeft > 0
    /\ \E id \in uuid4(generated), timestamp \in now :
          /\ req' = [req EXCEPT ![c] =
                       [Idle EXCEPT !.op = "create_status_check", !.pc = "insert",
                                    !.arg = <<client_name>>,
                                    !.obj = <<StatusCheck(client_name, id, timestamp)>>]]
          /\ generated' = generated \cup {id}
    /\ opsLeft' = opsLeft - 1
    /\ UNCHANGED <<ideas, createResps, upvoteResps, writes, statusChecks, up>>

\* await db.status_checks.insert_one(status_obj.dict()), then return status_obj
create_status_check_insert(c) ==
    /\ req[c].op = "create_status_check"
    /\ req[c].pc = "insert"
    /\ LET after == db_status_checks_insert_one(ideas, statusChecks,
                                                status_document(req[c].obj[1]))
       IN  /\ ideas' = IF up THEN after[1] ELSE ideas
           /\ statusChecks' = IF up THEN after[2] ELSE statusChecks
    /\ writes' = IF ideas' # ideas THEN writes + 1 ELSE writes
    /\ req' = [req EXCEPT ![c] =
                 IF up
                 THEN [@ EXCEPT !.pc = "return", !.status = 200, !.calls = @ + 1,
                                !.body = req[c].obj]
                 ELSE unreachable(@)]
    /\ UNCHANGED <<generated, opsLeft, createResps, upvoteResps, up>>

\* get_status_checks: find().to_list(1000), each document as a StatusCheck
get_status_checks_find(c) ==
    /\ req[c].pc = "idle"
    /\ opsLeft > 0
    /\ LET r == [Idle EXCEPT !.op = "get_status_checks"]
       IN  req' = [req EXCEPT ![c] =
                     IF up
                     THEN [r EXCEPT !.pc = "return", !.status = 200, !.calls = @ + 1,
                                    !.body = to_list(statusChecks, to_list_length)]
                     ELSE unreachable(r)]
    /\ opsLeft' = opsLeft - 1
    /\ UNCHANGED <<ideas, generated, createResps, upvoteResps, writes, statusChecks, up>>

\* the response of root, create_status_check or get_status_checks reaches the
\* client
route_return(c) ==
    /\ req[c].op \in {"root", "create_status_check", "get_status_checks"}
    /\ req[c].pc = "return"
    /\ req' = [req EXCEPT ![c] = Idle]
    /\ UNCHANGED <<ideas, generated, opsLeft, createResps, upvoteResps, writes,
                   statusChecks, up>>

NextRouter ==
    \/ Next
    \/ \E c \in Clients : root(c)
    \/ \E c \in Clients, client_name \in ClientNames : create_status_check_begin(c, client_name)
    \/ \E c \in Clients : create_status_check_insert(c)
    \/ \E c \in Clients : get_status_checks_find(c)
    \/ \E c \in Clients : route_return(c)

SpecRouter == InitRouter /\ [][NextRouter]_vars

----------------------------------------------------------------------------
(* Steps and observations the properties speak of. *)

\* client c's request is an upvote of idea_id that the handler answers with 200
UpvoteOk(c, idea_id) ==
    /\ req[c].op = "upvote_idea"
    /\ req[c].status = 200
    /\ req[c].arg = <<idea_id>>

\* the upvote values of the 200 responses for idea_id that have been returned
ReturnedFor(idea_id) ==
    {k \in 1..Len(upvoteResps) : upvoteResps[k].id = idea_id}

\* the number of successful upvote calls on idea_id: returned, or answered
\* and on their way to the client
Successful(idea_id) ==
    Cardinality(ReturnedFor(idea_id))
    + Cardinality({c \in Clients : UpvoteOk(c, idea_id)})

\* this step is client c's get_ideas reading the collection
ListStep(c) == req[c].pc = "idle" /\ req'[c].op = "get_ideas"

\* this step is client c's upvote_idea reaching the store
UpvoteStep(c) == req[c].pc = "idle" /\ req'[c].op = "upvote_idea"

\* this step is the arrival of client c's POST /ideas
CreateStep(c) == req[c].pc = "idle" /\ req'[c].op = "create_idea"

\* this step is client c's create_idea inserting its document
InsertStep(c) == req[c].pc = "insert" /\ req'[c].pc = "return"

----------------------------------------------------------------------------
(* C1: every idea's upvotes equals the number of successful upvote calls   *)
(* on its id, however the upvotes of the clients interleave with each      *)
(* other and with creates and lists: no increment is lost.                 *)
C1_NoLostUpvote ==
    \A i \in 1..Len(ideas) : ideas[i].upvotes = Successful(ideas[i].id)

\* three upvotes of one idea have succeeded, two of them in flight together
C1_Witness ==
    \E i \in 1..Len(ideas) :
        /\ ideas[i].upvotes = 3
        /\ \A c \in Clients : UpvoteOk(c, ideas[i].id)

(* C2: the body of every get_ideas response is ordered by upvotes          *)
(* descending and, among equal upvotes, by created_at descending.          *)
C2_ListOrdered ==
    \A c \in Clients :
        req[c].op = "get_ideas" =>
            \A i \in 1..(Len(req[c].body) - 1) :
                LET x == req[c].body[i]
                    y == req[c].body[i + 1]
                IN  \/ x.upvotes > y.upvotes
                    \/ /\ x.upvotes = y.upvotes
                       /\ ~DatetimeLess(x.created_at, y.created_at)

\* a list whose first two ideas tie on upvotes and were created within the
\* same second, one with a zero microsecond field
C2_Witness ==
    \E c \in Clients :
        /\ req[c].op = "get_ideas"
        /\ Len(req[c].body) >= 2
        /\ req[c].body[1].upvotes = req[c].body[2].upvotes
        /\ req[c].body[1].created_at.second = req[c].body[2].created_at.second
        /\ req[c].body[1].created_at.microsecond > 0
        /\ req[c].body[2].created_at.microsecond = 0

\* the collection as responses show it: each document parsed and shaped
Shown(coll) == {IdeaResponse(parse_from_mongo(coll[i])) : i \in 1..Len(coll)}

(* C3: a get_ideas response holds every idea of the collection exactly     *)
(* once, whatever the size of the collection: it is as long as the         *)
(* collection and holds the same records.                                  *)
C3_ListReturnsAll ==
    [][\A c \in Clients :
          ListStep(c) =>
              /\ Len(req'[c].body) = Len(ideas)
              /\ {req'[c].body[j] : j \in 1..Len(req'[c].body)} = Shown(ideas)
      ]_vars

\* a text of 1 to 280 characters, as the claims state the rule
InRange(text) == 1 <= len(text) /\ len(text) <= 280

(* C4: a create with a text of 1 to 280 characters passes validation, and  *)
(* its handler answers 200 with a record that has this text, upvotes 0 and *)
(* an id that no idea already in the collection has.                       *)
C4_CreateValid ==
    [][\A c \in Clients :
          /\ (CreateStep(c) /\ InRange(req'[c].arg[1])) =>
                 /\ req'[c].pc = "insert"
                 /\ req'[c].status # 422
          /\ InsertStep(c) =>
                 /\ req'[c].status = 200
                 /\ req'[c].body[1].text = req[c].arg[1]
                 /\ req'[c].body[1].upvotes = 0
                 /\ \A i \in 1..Len(ideas) : ideas[i].id # req'[c].body[1].id
      ]_vars

\* a create with a 280-character text answered 200 over a collection that
\* already held an idea
C4_Witness ==
    \E c \in Clients :
        /\ req[c].op = "create_idea"
        /\ req[c].pc = "return"
        /\ req[c].status = 200
        /\ len(req[c].arg[1]) = 280
        /\ Len(ideas) >= 2

(* C5: a create with an empty text or one of more than 280 characters is   *)
(* answered 422 and leaves the collection as it was, so every stored idea  *)
(* has a text of 1 to 280 characters.                                      *)
C5_CreateInvalid ==
    [][/\ \A c \in Clients :
             (CreateStep(c) /\ ~InRange(req'[c].arg[1])) =>
                 /\ req'[c].pc = "return"
                 /\ req'[c].status = 422
                 /\ ideas' = ideas
       /\ \A c \in Clients :
             (req[c].status = 422 /\ req'[c] # req[c]) =>
                 /\ req'[c] = Idle
                 /\ ideas' = ideas
       /\ \A i \in 1..Len(ideas') : InRange(ideas'[i].text)
      ]_vars

\* both kinds of bad text have been refused while the collection holds an idea
C5_Witness ==
    /\ Len(ideas) >= 1
    /\ \E c, d \in Clients :
          /\ req[c].op = "create_idea" /\ req[c].status = 422 /\ len(req[c].arg[1]) = 0
          /\ req[d].op = "create_idea" /\ req[d].status = 422 /\ len(req[d].arg[1]) = 281

(* C6: an upvote of an id that no idea of the collection has is answered   *)
(* 404 and leaves the collection as it was.                                *)
C6_UpvoteUnknown ==
    [][\A c \in Clients :
          (UpvoteStep(c) /\ match(ideas, req'[c].arg[1]) = {}) =>
              /\ req'[c].status = 404
              /\ req'[c].body = <<>>
              /\ ideas' = ideas
      ]_vars

\* an upvote was answered 404 while the collection holds an idea
C6_Witness ==
    /\ Len(ideas) >= 1
    /\ \E c \in Clients : req[c].op = "upvote_idea" /\ req[c].status = 404

\* the successful upvotes of every idea, returned or in flight, carry the
\* values 1..upvotes, each once
C7_Values ==
    \A i \in 1..Len(ideas) :
        LET id == ideas[i].id
            inFlight == {c \in Clients : UpvoteOk(c, id)}
        IN  \A v \in 1..ideas[i].upvotes :
                Cardinality({k \in ReturnedFor(id) : upvoteResps[k].upvotes = v})
                + Cardinality({c \in inFlight : req[c].body[1].upvotes = v}) = 1

(* C7: a successful upvote answers with the stored upvotes of just before  *)
(* its increment plus 1, so the n successful upvotes of an idea, in any    *)
(* interleaving, answer with the n values 1..n, each once.                 *)
C7_UpvoteReturnsNew ==
    [][/\ \A c \in Clients :
             (UpvoteStep(c) /\ req'[c].status = 200) =>
                 /\ match(ideas, req'[c].arg[1]) # {}
                 /\ req'[c].body[1].upvotes
                        = ideas[first(match(ideas, req'[c].arg[1]))].upvotes + 1
                 /\ req'[c].body[1].id = req'[c].arg[1]
       /\ C7_Values'
      ]_vars

\* two upvotes of one idea in flight together, answered 1 and 2
C7_Witness ==
    \E c, d \in Clients :
        /\ req[c].op = "upvote_idea" /\ req[c].status = 200
        /\ req[d].op = "upvote_idea" /\ req[d].status = 200
        /\ req[c].arg = req[d].arg
        /\ req[c].body[1].upvotes = 1
        /\ req[d].body[1].upvotes = 2

(* C8: every get_ideas response read after a create's 200 response was     *)
(* returned holds a record with the id, text and created_at of that        *)
(* response.                                                               *)
C8_RoundTrip ==
    [][\A c \in Clients :
          ListStep(c) =>
              \A r \in createResps :
                  \E j \in 1..Len(req'[c].body) :
                      /\ req'[c].body[j].id = r.id
                      /\ req'[c].body[j].text = r.text
                      /\ req'[c].body[j].created_at = r.created_at
      ]_vars

\* the clients whose create_idea has built its idea and not yet inserted it
Building == {c \in Clients : req[c].op = "create_idea" /\ req[c].pc = "insert"}

(* C9: the ids of the ideas are pairwise distinct, concurrent creates      *)
(* included: no id is assigned to two ideas.                               *)
C9_UniqueIds ==
    /\ \A i, j \in 1..Len(ideas) : ideas[i].id = ideas[j].id => i = j
    /\ \A c \in Building : match(ideas, req[c].obj[1].id) = {}
    /\ \A c, d \in Building : req[c].obj[1].id = req[d].obj[1].id => c = d

\* two creates in flight together, then both inserted
C9_Witness ==
    /\ Len(ideas) = 2
    /\ \A c \in Clients : req[c].op = "create_idea" /\ req[c].pc = "return"
                          /\ req[c].status = 200

(* C10: an idea's upvotes is 0 when it is inserted, is never negative,     *)
(* never decreases, and changes only in a step of an upvote of its id.     *)
C10_UpvotesMonotone ==
    [][/\ Len(ideas') >= Len(ideas)
       /\ \A i \in 1..Len(ideas) :
             /\ ideas'[i].id = ideas[i].id
             /\ ideas'[i].upvotes >= ideas[i].upvotes
             /\ ideas'[i].upvotes # ideas[i].upvotes =>
                    \E c \in Clients :
                        UpvoteStep(c) /\ req'[c].arg = <<ideas[i].id>>
       /\ \A i \in (Len(ideas) + 1)..Len(ideas') : ideas'[i].upvotes = 0
       /\ \A i \in 1..Len(ideas') : ideas'[i].upvotes >= 0
      ]_vars

\* one idea upvoted twice next to one never upvoted
C10_Witness ==
    \E i, j \in 1..Len(ideas) : ideas[i].upvotes = 2 /\ ideas[j].upvotes = 0

(* C15: an idea of the collection stays in it, with its id, text and       *)
(* created_at as they are; the one change to it is an increase of its      *)
(* upvotes by exactly 1.                                                   *)
C15_IdeasStay ==
    [][/\ Len(ideas') >= Len(ideas)
       /\ \A i \in 1..Min(Len(ideas), Len(ideas')) :
             /\ ideas'[i].id = ideas[i].id
             /\ ideas'[i].text = ideas[i].text
             /\ ideas'[i].created_at = ideas[i].created_at
             /\ \/ ideas'[i].upvotes = ideas[i].upvotes
                \/ ideas'[i].upvotes = ideas[i].upvotes + 1
      ]_vars

\* an idea upvoted twice next to a younger idea, every request answered
C15_Witness ==
    /\ Len(ideas) = 2
    /\ ideas[1].upvotes = 2
    /\ \A c \in Clients : req[c].pc = "idle"

(* C16: a successful upvote of an id changes the one record with that id   *)
(* and leaves every other record and the size of the collection as they    *)
(* were; a successful create adds one record and changes no other.         *)
C16_OneRecord ==
    [][\A c \in Clients :
          /\ (UpvoteStep(c) /\ req'[c].status = 200) =>
                 /\ Len(ideas') = Len(ideas)
                 /\ \E i \in 1..Len(ideas) :
                       /\ ideas[i].id = req'[c].arg[1]
                       /\ ideas'[i] # ideas[i]
                       /\ \A j \in 1..Len(ideas) : j # i => ideas'[j] = ideas[j]
          /\ (InsertStep(c) /\ req'[c].status = 200) =>
                 /\ Len(ideas') = Len(ideas) + 1
                 /\ \A j \in 1..Len(ideas) : ideas'[j] = ideas[j]
      ]_vars

\* the second of two ideas was upvoted while the first was not
C16_Witness ==
    /\ Len(ideas) = 2
    /\ ideas[1].upvotes = 0
    /\ \E c \in Clients : UpvoteOk(c, ideas[2].id)

(* C17: when create or upvote has answered 200 its write is in the store,  *)
(* and every get_ideas that reads after the response was returned shows    *)
(* it: the created idea, and upvotes no lower than the answered ones.      *)
C17_WriteBeforeRespond ==
    [][\A c \in Clients :
          /\ (req[c].op = "create_idea" /\ req[c].status = 200) =>
                 match(ideas, req[c].body[1].id) # {}
          /\ (req[c].op = "upvote_idea" /\ req[c].status = 200) =>
                 \E i \in match(ideas, req[c].body[1].id) :
                     ideas[i].upvotes >= req[c].body[1].upvotes
          /\ ListStep(c) =>
                 /\ \A r \in createResps :
                       \E j \in 1..Len(req'[c].body) : req'[c].body[j].id = r.id
                 /\ \A k \in 1..Len(upvoteResps) :
                       \E j \in 1..Len(req'[c].body) :
                           /\ req'[c].body[j].id = upvoteResps[k].id
                           /\ req'[c].body[j].upvotes >= upvoteResps[k].upvotes
      ]_vars

(* C19: the collection grows by one idea exactly in the steps in which a   *)
(* create inserts; an upvote never inserts: an upvote of an id that is not *)
(* yet inserted is answered 404, and the idea inserted later under that id *)
(* starts with upvotes 0.                                                  *)
C19_NoUpsert ==
    [][/\ \/ Len(ideas') = Len(ideas) + 1 /\ \E c \in Clients : InsertStep(c)
          \/ Len(ideas') = Len(ideas) /\ ~\E c \in Clients : InsertStep(c)
       /\ \A c \in Clients :
             /\ (UpvoteStep(c) /\ match(ideas, req'[c].arg[1]) = {}) =>
                    /\ req'[c].status = 404
                    /\ Len(ideas') = Len(ideas)
             /\ InsertStep(c) =>
                    /\ ideas'[Len(ideas')].id = req[c].obj[1].id
                    /\ ideas'[Len(ideas')].upvotes = 0
      ]_vars

\* an upvote of an id was answered 404 before the create that produced the
\* id inserted its idea, which now has upvotes 0
C19_Witness ==
    \E c \in Clients, i \in 1..Len(ideas) :
        /\ req[c].op = "upvote_idea"
        /\ req[c].status = 404
        /\ req[c].arg = <<ideas[i].id>>
        /\ ideas[i].upvotes = 0


----------------------------------------------------------------------------
(* C11 *)

\* C11: two list calls with no write taking effect between them return the
\* same sequence of records in the same order, ties included.
C11_ListIdempotent ==
    \A c, d \in Clients :
        (/\ req[c].op = "get_ideas" /\ req[c].status = 200
         /\ req[d].op = "get_ideas" /\ req[d].status = 200
         /\ req[c].at = req[d].at)
        => req[c].body = req[d].body


----------------------------------------------------------------------------
(* C12, C13, C18 *)

\* the step in which client c's request performs its storage operation
StorageStep(c) == ListStep(c) \/ InsertStep(c) \/ UpvoteStep(c)

\* C12: with the store unreachable, list, create and upvote each answer with a
\* server error after issuing their storage operation once; the response is
\* never a success, and the collection stays as it was.
C12_StoreUnreachable ==
    [][\A c \in Clients :
          /\ (StorageStep(c) /\ ~up) =>
                /\ req'[c].status = 500
                /\ req'[c].body = <<>>
                /\ req'[c].calls = 1
                /\ ideas' = ideas
          /\ (req[c].pc = "return" /\ req'[c] # req[c]) => req'[c] = Idle
          /\ (req[c].status = 500 /\ req'[c] # req[c]) =>
                /\ createResps' = createResps
                /\ upvoteResps' = upvoteResps
                /\ ideas' = ideas]_vars

C12_Witness ==
    /\ ~up
    /\ \E c, d \in Clients :
          /\ req[c].op = "create_idea" /\ req[c].status = 500 /\ req[c].calls = 1
          /\ req[d].op = "upvote_idea" /\ req[d].status = 500 /\ req[d].calls = 1

\* C13 as stated: list always succeeds, with an empty list for an empty
\* collection; it has no failure outcome.
C13_ListAlwaysSucceeds ==
    [][\A c \in Clients :
          ListStep(c) =>
             /\ req'[c].status = 200
             /\ ideas = <<>> => req'[c].body = <<>>]_vars

\* C13: list succeeds whenever the store is reachable, with an empty list for
\* an empty collection, and answers with a server error when the store is
\* unreachable.
C13_ListSucceedsWhenReachable ==
    [][\A c \in Clients :
          ListStep(c) =>
             IF up
             THEN /\ req'[c].status = 200
                  /\ ideas = <<>> => req'[c].body = <<>>
             ELSE req'[c].status = 500]_vars

C13_Witness ==
    /\ ideas = <<>>
    /\ \E c, d \in Clients :
          /\ req[c].op = "get_ideas" /\ req[c].status = 200 /\ req[c].body = <<>>
          /\ req[d].op = "get_ideas" /\ req[d].status = 500

\* client c's create is abandoned before its insert is acknowledged
CreateAbandoned(c) ==
    req[c].op = "create_idea" /\ req[c].pc = "insert" /\ req'[c] = Idle

\* an upvote is abandoned before its update is acknowledged
UpvoteAbandoned == req' = req /\ opsLeft' = opsLeft - 1

\* client c's create or upvote is abandoned after its write was acknowledged
AbandonedAfterAck(c) ==
    /\ req[c].op \in {"create_idea", "upvote_idea"}
    /\ req[c].pc = "return" /\ req[c].status = 200
    /\ req'[c] = Idle
    /\ createResps' = createResps /\ upvoteResps' = upvoteResps

\* C18: a request abandoned before its storage write is acknowledged has no
\* effect on the collection, and an acknowledged write is not undone by a later
\* abandonment.
C18_AbandonNoEffect ==
    [][/\ \A c \in Clients : CreateAbandoned(c) => ideas' = ideas
       /\ UpvoteAbandoned => ideas' = ideas
       /\ \A c \in Clients : AbandonedAfterAck(c) => ideas' = ideas]_vars


----------------------------------------------------------------------------
(* C14 *)

\* the operation of the request of client c that takes the step
StepOp(c) == IF req[c].pc = "idle" THEN req'[c].op ELSE req[c].op

\* C14 as stated: create and upvote are the only operations that change
\* persisted state; root, list and every other route of the router leave all
\* of it unchanged.
C14_OnlyCreateAndUpvoteWrite ==
    [][\A c \in Clients :
          (req'[c] # req[c] /\ StepOp(c) \notin {"create_idea", "upvote_idea"}) =>
             ideas' = ideas /\ statusChecks' = statusChecks]_vars

\* C14: create and upvote are the only operations that change the ideas
\* collection; create_status_check adds one document to the status_checks
\* collection and changes nothing else; root, list and get_status_checks leave
\* all persisted state unchanged.
C14_WritesByRoute ==
    [][\A c \in Clients :
          req'[c] # req[c] =>
             /\ StepOp(c) \notin {"create_idea", "upvote_idea"} => ideas' = ideas
             /\ StepOp(c) # "create_status_check" => statusChecks' = statusChecks
             /\ StepOp(c) = "create_status_check" =>
                   \/ statusChecks' = statusChecks
                   \/ /\ Len(statusChecks') = Len(statusChecks) + 1
                      /\ SubSeq(statusChecks', 1, Len(statusChecks)) = statusChecks]_vars

C14_Witness ==
    /\ Len(ideas) = 1
    /\ Len(statusChecks) = 1
    /\ \E c \in Clients : req[c].op = "root" /\ req[c].status = 200

====
